---- MODULE Spec2Model ----
(***************************************************************************)
(* KernFeatureWriter of scripts/lib/fontbuild/kerning.py as a state        *)
(* machine: the class registry filled by classDefinition(), and write()    *)
(* as its classification loops followed by the rendering of four buckets. *)
(*                                                                         *)
(* A class's contents list is observed by the code only through           *)
(* contents[0] and len(contents); it is the record [first, len].           *)
(* The returned text is the sequence of its lines (the pieces that         *)
(* linesep.join puts together).                                            *)
(***************************************************************************)
EXTENDS Integers, Sequences, FiniteSets, TLC

VARIABLES
    kerning,            \* self.kerning: the font's pair -> value store
    leftClasses,        \* self.leftClasses: list of (name, contents)
    rightClasses,       \* self.rightClasses
    classSizes,         \* self.classSizes: name -> len(contents)
    ruleCount,          \* self.ruleCount
    pc,                 \* position inside write(), "idle" outside it
    i, j,               \* positions of the loops over leftClasses / rightClasses
    leftClassKerning,   \* locals of write()
    rightClassKerning,
    classPairKerning,
    lines,              \* write(): lines
    bucket,             \* which of the four _writeKerning calls is running
    pairs,              \* _writeKerning: the sorted items still to be visited
    sub,                \* _writeKerning: lines
    results,            \* the texts returned by the write() calls so far
    calls,              \* history: the classDefinition calls made so far
    started             \* history: per write() call, the store and #calls at its start

vars == <<kerning, leftClasses, rightClasses, classSizes, ruleCount, pc, i, j,
          leftClassKerning, rightClassKerning, classPairKerning, lines, bucket,
          pairs, sub, results, calls, started>>

-----------------------------------------------------------------------------
(* Bounds *)

MaxDefs == 2
MaxWrites == 2

-----------------------------------------------------------------------------
(* Strings: Python 2 str values, as their characters *)

Chars(s) ==
    CASE s = "@_A_L" -> <<"@", "_", "A", "_", "L">>
      [] s = "@_K_L" -> <<"@", "_", "K", "_", "L">>
      [] s = "@_B_R" -> <<"@", "_", "B", "_", "R">>
      [] s = "@_C"   -> <<"@", "_", "C">>
      [] s = "@_L"   -> <<"@", "_", "L">>
      [] s = "A_L"   -> <<"A", "_", "L">>
      [] s = "g1"    -> <<"g", "1">>
      [] s = "g2"    -> <<"g", "2">>
      [] s = "g3"    -> <<"g", "3">>
      [] s = "g4"    -> <<"g", "4">>
      [] s = "g5"    -> <<"g", "5">>

Ord(c) ==
    CASE c = "1" -> 49 [] c = "2" -> 50 [] c = "3" -> 51 [] c = "4" -> 52
      [] c = "5" -> 53 [] c = "@" -> 64 [] c = "A" -> 65 [] c = "B" -> 66
      [] c = "C" -> 67 [] c = "K" -> 75 [] c = "L" -> 76 [] c = "R" -> 82
      [] c = "_" -> 95 [] c = "g" -> 103

\* mutant of startswith: the prefix test always succeeds
startswith_always(s, prefix) == TRUE

startswith(s, prefix) ==
    /\ Len(prefix) <= Len(Chars(s))
    /\ SubSeq(Chars(s), 1, Len(prefix)) = prefix

endswith(s, suffix) ==
    /\ Len(suffix) <= Len(Chars(s))
    /\ SubSeq(Chars(s), Len(Chars(s)) - Len(suffix) + 1, Len(Chars(s))) = suffix

RECURSIVE SeqLess(_, _)
SeqLess(a, b) ==
    IF b = <<>> THEN FALSE
    ELSE IF a = <<>> THEN TRUE
    ELSE IF Ord(Head(a)) # Ord(Head(b)) THEN Ord(Head(a)) < Ord(Head(b))
    ELSE SeqLess(Tail(a), Tail(b))

StrLess(a, b) == SeqLess(Chars(a), Chars(b))

\* comparison of the (left, right) tuples that key an item
PairLess(p, q) == StrLess(p[1], q[1]) \/ (p[1] = q[1] /\ StrLess(p[2], q[2]))

-----------------------------------------------------------------------------
(* Inputs *)

Contents(first, len) == [first |-> first, len |-> len]

ClassDefs ==
    { <<"@_A_L", Contents("g1", 2)>>,
      <<"@_A_L", Contents("g2", 2000)>>,
      <<"@_K_L", Contents("g1", 50)>>,
      <<"@_B_R", Contents("g3", 1)>>,
      <<"@_B_R", Contents("g3", 50)>>,
      <<"@_B_R", Contents("g3", 2500)>> }

\* further definitions for the registry: a name with neither suffix, a name
\* that is nothing but prefix and suffix, a name without the prefix
RegistryDefs ==
    ClassDefs \cup
    { <<"@_C",   Contents("g4", 3)>>,
      <<"@_L",   Contents("g4", 2)>>,
      <<"A_L",   Contents("g1", 2)>> }

PairUniverse == { <<"g1", "g3">>, <<"g2", "g3">>, <<"g4", "g5">>, <<"g2", "g5">> }

KernValue(p) ==
    CASE p = <<"g1", "g3">> -> 10
      [] p = <<"g2", "g3">> -> 20
      [] p = <<"g4", "g5">> -> 5
      [] p = <<"g2", "g5">> -> -7

Stores == { [p \in S |-> KernValue(p)] : S \in SUBSET PairUniverse }

\* the stores of the registry specification: an empty font and one with
\* kerning for every pair
RegistryStores == { [p \in S |-> KernValue(p)] : S \in {{}, PairUniverse} }

-----------------------------------------------------------------------------
(* The kerning store (font.kerning), through the four operations write()   *)
(* uses: a lookup that gives None for an absent pair, the removal of a     *)
(* pair, and the lists of the pairs with a given left or right member,     *)
(* taken before the loop that removes them runs.                           *)

EmptyMap == [p \in {} |-> 0]

\* kerning[pair]: <<value>>, or <<>> for None
get(k, pair) == IF pair \in DOMAIN k THEN <<k[pair]>> ELSE <<>>

\* mutant of remove: the pairs stay in the store
remove_nothing(k, ps) == k

remove(k, ps) == [p \in DOMAIN k \ ps |-> k[p]]

\* mutant of getLeft: no hits
getLeft_none(k, glyph) == {}

getLeft(k, glyph) == { p \in DOMAIN k : p[1] = glyph }

getRight(k, glyph) == { p \in DOMAIN k : p[2] = glyph }

\* d[key] = val for a Python dict
put(d, key, val) == [p \in DOMAIN d \cup {key} |-> IF p = key THEN val ELSE d[p]]

-----------------------------------------------------------------------------
(* Lines of the returned text *)

Header == [kind |-> "feature kern {"]
Footer == [kind |-> "} kern;"]
Subtable == [kind |-> "subtable"]
Blank == [kind |-> ""]
Rule(enum, left, right, val) ==
    [kind |-> "rule", enum |-> enum, left |-> left, right |-> right, val |-> val]

\* linesep.join(lines) of _writeKerning, as the lines it contributes to the
\* outer join: an empty list joins to "", which is one empty line
join(ls) == IF ls = <<>> THEN <<Blank>> ELSE ls

-----------------------------------------------------------------------------
(* Sorting *)

\* mutant of first: the sort is descending
first_descending(S) == CHOOSE p \in S : \A q \in S \ {p} : PairLess(q, p)

\* the key that list.sort() puts first
first(S) == CHOOSE p \in S : \A q \in S \ {p} : PairLess(p, q)

RECURSIVE sortKeys(_)
sortKeys(S) == IF S = {} THEN <<>> ELSE <<first(S)>> \o sortKeys(S \ {first(S)})

\* pairs = kerning.items(); pairs.sort()
sort(d) == [n \in 1..Cardinality(DOMAIN d) |->
               [key |-> sortKeys(DOMAIN d)[n], val |-> d[sortKeys(DOMAIN d)[n]]]]

-----------------------------------------------------------------------------
Threshold == 2048

sizeOf(name) == IF name \in DOMAIN classSizes THEN classSizes[name] ELSE 1

\* mutant of rulesAdded: every rule counts 1
rulesAdded_one(enum, left, right) == 1

rulesAdded(enum, left, right) == IF enum THEN sizeOf(left) * sizeOf(right) ELSE 1

\* mutant of newCount: the counter restarts at 0 after a boundary
newCount_zero(count, added) == IF count + added > Threshold THEN 0 ELSE count + added

\* lines 87-90: self.ruleCount after a rule that adds `added`
newCount(count, added) == IF count + added > Threshold THEN added ELSE count + added

InitWith(stores) ==
    /\ kerning \in stores
    /\ leftClasses = <<>>
    /\ rightClasses = <<>>
    /\ classSizes = [n \in {} |-> 0]
    /\ ruleCount = 0        \* not set by __init__; line 65 assigns it before any read
    /\ pc = "idle"
    /\ i = 1
    /\ j = 1
    /\ leftClassKerning = EmptyMap
    /\ rightClassKerning = EmptyMap
    /\ classPairKerning = EmptyMap
    /\ lines = <<>>
    /\ bucket = 1
    /\ pairs = <<>>
    /\ sub = <<>>
    /\ results = <<>>
    /\ calls = <<>>
    /\ started = <<>>

Init == InitWith(Stores)

writeLocals == <<i, j, leftClassKerning, rightClassKerning, classPairKerning,
                 lines, bucket, pairs, sub>>

\* classDefinition(name, contents)
classDefinition(name, contents) ==
    /\ pc = "idle"
    /\ Len(calls) < MaxDefs
    /\ calls' = Append(calls, <<name, contents>>)
    /\ IF ~startswith(name, <<"@", "_">>)
       THEN UNCHANGED <<leftClasses, rightClasses, classSizes>>
       ELSE /\ IF endswith(name, <<"_", "L">>)
               THEN /\ leftClasses' = Append(leftClasses, <<name, contents>>)
                    /\ UNCHANGED rightClasses
               ELSE IF endswith(name, <<"_", "R">>)
               THEN /\ rightClasses' = Append(rightClasses, <<name, contents>>)
                    /\ UNCHANGED leftClasses
               ELSE UNCHANGED <<leftClasses, rightClasses>>
            /\ classSizes' = [n \in DOMAIN classSizes \cup {name} |->
                                 IF n = name THEN contents.len ELSE classSizes[n]]
    /\ UNCHANGED <<kerning, ruleCount, pc, writeLocals, results, started>>

\* write(): entry, line 38
WriteStart ==
    /\ pc = "idle"
    /\ Len(started) < MaxWrites
    /\ started' = Append(started, [store |-> kerning, ndefs |-> Len(calls)])
    /\ leftClassKerning' = EmptyMap
    /\ rightClassKerning' = EmptyMap
    /\ classPairKerning' = EmptyMap
    /\ i' = 1
    /\ j' = 1
    /\ pc' = "classPair"
    /\ UNCHANGED <<kerning, leftClasses, rightClasses, classSizes, ruleCount,
                   lines, bucket, pairs, sub, results, calls>>

\* lines 39-50: the head of the outer loop and one turn of the inner loop
ClassPairStep ==
    /\ pc = "classPair"
    /\ IF i > Len(leftClasses)
       THEN /\ pc' = "rightClass"
            /\ j' = 1
            /\ UNCHANGED <<kerning, classPairKerning>>
       ELSE IF j > Len(rightClasses)
       THEN /\ pc' = "leftClass"
            /\ UNCHANGED <<j, kerning, classPairKerning>>
       ELSE LET leftName == leftClasses[i][1]
                leftKey == leftClasses[i][2].first
                rightName == rightClasses[j][1]
                rightKey == rightClasses[j][2].first
                pair == <<leftKey, rightKey>>
                kerningVal == get(kerning, pair)
            IN  /\ IF kerningVal = <<>>
                   THEN UNCHANGED <<kerning, classPairKerning>>
                   ELSE /\ classPairKerning' =
                              put(classPairKerning, <<leftName, rightName>>, kerningVal[1])
                        /\ kerning' = remove(kerning, {pair})
                /\ j' = j + 1
                /\ pc' = pc
    /\ UNCHANGED <<leftClasses, rightClasses, classSizes, ruleCount, i,
                   leftClassKerning, rightClassKerning, lines, bucket, pairs, sub,
                   results, calls, started>>

\* the loop of lines 53-55 over the hits of getLeft
RECURSIVE collectLeft(_, _, _, _)
collectLeft(d, k, leftName, hits) ==
    IF hits = {} THEN d
    ELSE LET pair == CHOOSE p \in hits : TRUE
         IN  collectLeft(put(d, <<leftName, pair[2]>>, k[pair]), k, leftName, hits \ {pair})

\* the loop of lines 60-62 over the hits of getRight
RECURSIVE collectRight(_, _, _, _)
collectRight(d, k, rightName, hits) ==
    IF hits = {} THEN d
    ELSE LET pair == CHOOSE p \in hits : TRUE
         IN  collectRight(put(d, <<pair[1], rightName>>, k[pair]), k, rightName, hits \ {pair})

\* lines 52-55 for the left class i, then back to the outer loop
LeftClassStep ==
    /\ pc = "leftClass"
    /\ LET leftName == leftClasses[i][1]
           leftKey == leftClasses[i][2].first
           hits == getLeft(kerning, leftKey)
       IN  /\ leftClassKerning' = collectLeft(leftClassKerning, kerning, leftName, hits)
           /\ kerning' = remove(kerning, hits)
    /\ i' = i + 1
    /\ j' = 1
    /\ pc' = "classPair"
    /\ UNCHANGED <<leftClasses, rightClasses, classSizes, ruleCount,
                   rightClassKerning, classPairKerning, lines, bucket, pairs, sub,
                   results, calls, started>>

\* lines 58-62: one turn of the loop over the right classes
RightClassStep ==
    /\ pc = "rightClass"
    /\ IF j > Len(rightClasses)
       THEN /\ pc' = "render"
            /\ UNCHANGED <<j, kerning, rightClassKerning>>
       ELSE LET rightName == rightClasses[j][1]
                rightKey == rightClasses[j][2].first
                hits == getRight(kerning, rightKey)
            IN  /\ rightClassKerning' =
                       collectRight(rightClassKerning, kerning, rightName, hits)
                /\ kerning' = remove(kerning, hits)
                /\ j' = j + 1
                /\ pc' = pc
    /\ UNCHANGED <<leftClasses, rightClasses, classSizes, ruleCount, i,
                   leftClassKerning, classPairKerning, lines, bucket, pairs, sub,
                   results, calls, started>>

\* lines 65-66
RenderStart ==
    /\ pc = "render"
    /\ ruleCount' = 0
    /\ lines' = <<Header>>
    /\ bucket' = 1
    /\ pc' = "call"
    /\ UNCHANGED <<kerning, leftClasses, rightClasses, classSizes, i, j,
                   leftClassKerning, rightClassKerning, classPairKerning, pairs, sub,
                   results, calls, started>>

\* mutant of bucketMap: the right-class bucket is rendered before the left-class one
bucketMap_swapped(b) ==
    CASE b = 1 -> kerning
      [] b = 2 -> rightClassKerning
      [] b = 3 -> leftClassKerning
      [] b = 4 -> classPairKerning

\* the mapping passed by the calls of lines 67-70
bucketMap(b) ==
    CASE b = 1 -> kerning
      [] b = 2 -> leftClassKerning
      [] b = 3 -> rightClassKerning
      [] b = 4 -> classPairKerning

\* mutants of bucketEnum: the class-pair call passes True too; only the
\* left-class call passes True
bucketEnum_all(b) == b \in {2, 3, 4}
bucketEnum_left(b) == b = 2

\* the enum argument of the calls of lines 67-70
bucketEnum(b) == b \in {2, 3}

\* _writeKerning, lines 77-80
WriteKerningCall ==
    /\ pc = "call"
    /\ sub' = <<>>
    /\ pairs' = sort(bucketMap(bucket))
    /\ pc' = "rule"
    /\ UNCHANGED <<kerning, leftClasses, rightClasses, classSizes, ruleCount, i, j,
                   leftClassKerning, rightClassKerning, classPairKerning, lines,
                   bucket, results, calls, started>>

\* _writeKerning, lines 81-91: one turn of the loop
WriteKerningRule ==
    /\ pc = "rule"
    /\ pairs # <<>>
    /\ LET left == Head(pairs).key[1]
           right == Head(pairs).key[2]
           val == Head(pairs).val
           enum == bucketEnum(bucket)
           added == rulesAdded(enum, left, right)
       IN  /\ sub' = IF ruleCount + added > Threshold
                     THEN sub \o <<Subtable, Rule(enum, left, right, val)>>
                     ELSE Append(sub, Rule(enum, left, right, val))
           /\ ruleCount' = newCount(ruleCount, added)
    /\ pairs' = Tail(pairs)
    /\ UNCHANGED <<kerning, leftClasses, rightClasses, classSizes, pc, i, j,
                   leftClassKerning, rightClassKerning, classPairKerning, lines,
                   bucket, results, calls, started>>

\* _writeKerning, line 92, and the lines.append of its caller
WriteKerningReturn ==
    /\ pc = "rule"
    /\ pairs = <<>>
    /\ lines' = lines \o join(sub)
    /\ IF bucket < 4
       THEN /\ bucket' = bucket + 1
            /\ pc' = "call"
       ELSE /\ bucket' = bucket
            /\ pc' = "return"
    /\ UNCHANGED <<kerning, leftClasses, rightClasses, classSizes, ruleCount, i, j,
                   leftClassKerning, rightClassKerning, classPairKerning, pairs, sub,
                   results, calls, started>>

\* lines 71-72
WriteReturn ==
    /\ pc = "return"
    /\ lines' = Append(lines, Footer)
    /\ results' = Append(results, lines')
    /\ pc' = "idle"
    /\ UNCHANGED <<kerning, leftClasses, rightClasses, classSizes, ruleCount, i, j,
                   leftClassKerning, rightClassKerning, classPairKerning, bucket,
                   pairs, sub, calls, started>>

Write ==
    \/ WriteStart
    \/ ClassPairStep
    \/ LeftClassStep
    \/ RightClassStep
    \/ RenderStart
    \/ WriteKerningCall
    \/ WriteKerningRule
    \/ WriteKerningReturn
    \/ WriteReturn

Next ==
    \/ \E d \in ClassDefs : classDefinition(d[1], d[2])
    \/ Write

Spec == Init /\ [][Next]_vars

\* the registry under every kind of name
InitRegistry == InitWith(RegistryStores)

NextRegistry ==
    \/ \E d \in RegistryDefs : classDefinition(d[1], d[2])
    \/ Write

SpecRegistry == InitRegistry /\ [][NextRegistry]_vars

-----------------------------------------------------------------------------
(* Reading a returned text *)

IsRule(l) == l.kind = "rule"

RuleLines(out) == SelectSeq(out, IsRule)

\* a class identifier, as opposed to a glyph name
IsClass(n) == n \in {"@_A_L", "@_K_L", "@_B_R", "@_C", "@_L"}

\* 1 glyph-glyph, 2 left-class, 3 right-class, 4 class-class
BucketOf(l) ==
    IF IsClass(l.left) THEN (IF IsClass(l.right) THEN 4 ELSE 2)
    ELSE (IF IsClass(l.right) THEN 3 ELSE 1)

\* the weight of a rule line, read off the line
Weight(l) == IF l.enum THEN sizeOf(l.left) * sizeOf(l.right) ELSE 1

\* the write() calls that have returned, looked at between two calls (a
\* returned text never changes afterwards)
Returned == IF pc = "idle" THEN 1..Len(results) ELSE {}

\* no classDefinition since write() call k began: the registry is the one it saw
Fresh(k) == started[k].ndefs = Len(calls)

LeftKeys == { leftClasses[n][2].first : n \in 1..Len(leftClasses) }
RightKeys == { rightClasses[n][2].first : n \in 1..Len(rightClasses) }

\* the rule line l stands for the pair p of the store st
Represents(l, p, st) ==
    /\ l.val = st[p]
    /\ \/ l.left = p[1]
       \/ \E n \in 1..Len(leftClasses) :
              leftClasses[n][1] = l.left /\ leftClasses[n][2].first = p[1]
    /\ \/ l.right = p[2]
       \/ \E n \in 1..Len(rightClasses) :
              rightClasses[n][1] = l.right /\ rightClasses[n][2].first = p[2]

\* C1: every pair in the store when write() starts is represented by exactly
\* one rule line of the text that call returns: as many rule lines as pairs,
\* and for each pair a line that stands for it (a lookup of a pair that is in
\* the store never returns None, so none may be dropped).
C1_EveryPairOneLine ==
    \A k \in Returned :
        Fresh(k) =>
            /\ Len(RuleLines(results[k])) = Cardinality(DOMAIN started[k].store)
            /\ \A p \in DOMAIN started[k].store :
                   \E n \in 1..Len(results[k]) :
                       /\ IsRule(results[k][n])
                       /\ Represents(results[k][n], p, started[k].store)

-----------------------------------------------------------------------------
\* the rule lines of a text split at its "subtable;" lines
RECURSIVE Segments(_)
Segments(out) ==
    IF out = <<>> THEN << <<>> >>
    ELSE LET rest == Segments(Tail(out))
         IN  IF Head(out) = Subtable THEN << <<>> >> \o rest
             ELSE IF IsRule(Head(out))
             THEN << <<Head(out)>> \o Head(rest) >> \o Tail(rest)
             ELSE rest

RECURSIVE SumWeights(_)
SumWeights(seg) == IF seg = <<>> THEN 0 ELSE Weight(Head(seg)) + SumWeights(Tail(seg))

\* C2 as stated: between two consecutive "subtable;" lines (or the start or
\* the end of the text) the rule weights never sum to more than 2048.
C2_SegmentWithin2048 ==
    \A k \in Returned :
        Fresh(k) =>
            \A n \in 1..Len(Segments(results[k])) :
                SumWeights(Segments(results[k])[n]) <= 2048

\* C2 amended: a segment's rule weights sum to at most 2048 unless the segment
\* is a single rule whose own weight is more than 2048.
C2_SegmentWithin2048OrSingle ==
    \A k \in Returned :
        Fresh(k) =>
            \A n \in 1..Len(Segments(results[k])) :
                \/ SumWeights(Segments(results[k])[n]) <= 2048
                \/ /\ Len(Segments(results[k])[n]) = 1
                   /\ Weight(Segments(results[k])[n][1]) > 2048

\* C2 witness: a returned text with a boundary that closes a segment of
\* several rules, and a text with a single-rule segment heavier than 2048.
C2_Witness ==
    /\ \E k \in Returned : \E n \in 1..Len(Segments(results[k])) :
           /\ Fresh(k)
           /\ Len(Segments(results[k])) > 1
           /\ Len(Segments(results[k])[n]) > 1
           /\ SumWeights(Segments(results[k])[n]) > 1024
    /\ \E k \in Returned : \E n \in 1..Len(Segments(results[k])) :
           /\ Fresh(k)
           /\ Len(Segments(results[k])[n]) = 1
           /\ SumWeights(Segments(results[k])[n]) > 2048

-----------------------------------------------------------------------------
\* C3 as stated: a rule line carries "enum " exactly when it belongs to a
\* class-involving bucket (left-class, right-class or class-class).
C3_EnumOnEveryClassRule ==
    \A k \in Returned : \A n \in 1..Len(results[k]) :
        IsRule(results[k][n]) =>
            (results[k][n].enum <=> BucketOf(results[k][n]) \in {2, 3, 4})

\* C3 amended: the rules of the left-class and right-class buckets carry
\* "enum "; glyph-glyph rules and class-class rules are emitted without it.
C3_EnumOnLeftAndRightClassRules ==
    \A k \in Returned : \A n \in 1..Len(results[k]) :
        IsRule(results[k][n]) =>
            (results[k][n].enum <=> BucketOf(results[k][n]) \in {2, 3})

\* C3 witness: one returned text with a rule of each of the four buckets.
C3_Witness ==
    \E k \in Returned :
        \A b \in 1..4 : \E n \in 1..Len(results[k]) :
            IsRule(results[k][n]) /\ BucketOf(results[k][n]) = b

-----------------------------------------------------------------------------
\* the example: @_A_L = [g1, g2], @_B_R = [g3], (g1,g3)=10, (g2,g3)=20, (g4,g5)=5
ExampleStore ==
    [p \in { <<"g1", "g3">>, <<"g2", "g3">>, <<"g4", "g5">> } |->
        CASE p = <<"g1", "g3">> -> 10
          [] p = <<"g2", "g3">> -> 20
          [] p = <<"g4", "g5">> -> 5]

IsExample(k) ==
    /\ Fresh(k)
    /\ started[k].store = ExampleStore
    /\ leftClasses = << <<"@_A_L", Contents("g1", 2)>> >>
    /\ rightClasses = << <<"@_B_R", Contents("g3", 1)>> >>

\* C4 as stated: the example yields an enum class-pair rule of value 10 and
\* the glyph-glyph rules "pos g2 g3 20;" and "pos g4 g5 5;", no right-class
\* rule, and (g2,g3) and (g4,g5) are left in the store.
C4_ExampleAsStated ==
    \A k \in Returned :
        (IsExample(k) /\ k = Len(started)) =>
            /\ { results[k][n] : n \in { x \in 1..Len(results[k]) : IsRule(results[k][x]) } } =
                   { Rule(FALSE, "g2", "g3", 20), Rule(FALSE, "g4", "g5", 5),
                     Rule(TRUE, "@_A_L", "@_B_R", 10) }
            /\ Len(RuleLines(results[k])) = 3
            /\ DOMAIN kerning = { <<"g2", "g3">>, <<"g4", "g5">> }

\* C4 amended: in the example (g1,g3) goes to the class-pair bucket and
\* (g2,g3), whose right member is the key glyph of @_B_R, to the right-class
\* bucket; only (g4,g5) stays in the store. The text is the header,
\* "pos g4 g5 5;", an empty line for the empty left-class bucket,
\* "enum pos g2 @_B_R 20;", "pos @_A_L @_B_R 10;" and the footer.
C4_Example ==
    \A k \in Returned :
        (IsExample(k) /\ k = Len(started)) =>
            /\ results[k] =
                   << Header,
                      Rule(FALSE, "g4", "g5", 5),
                      Blank,
                      Rule(TRUE, "g2", "@_B_R", 20),
                      Rule(FALSE, "@_A_L", "@_B_R", 10),
                      Footer >>
            /\ kerning = [p \in { <<"g4", "g5">> } |-> 5]

\* C4 witness: write() has returned on the example.
C4_Witness == \E k \in Returned : IsExample(k) /\ k = Len(started)

-----------------------------------------------------------------------------
\* C5: in a returned text no rule of a later bucket precedes a rule of an
\* earlier bucket (glyph-glyph, left-class, right-class, class-class), and
\* two rules of one bucket are in ascending order of their (left, right) pair.
C5_BucketOrderAndSorted ==
    \A k \in Returned : \A m, n \in 1..Len(results[k]) :
        (m < n /\ IsRule(results[k][m]) /\ IsRule(results[k][n])) =>
            LET a == results[k][m]
                b == results[k][n]
            IN  /\ BucketOf(a) <= BucketOf(b)
                /\ BucketOf(a) = BucketOf(b) =>
                       \/ StrLess(a.left, b.left)
                       \/ a.left = b.left /\ StrLess(a.right, b.right)

\* C5 witness: a returned text with rules of three buckets, two of them in
\* one bucket, from classes registered right class first.
C5_Witness ==
    \E k \in Returned :
        /\ Len(calls) = 2 /\ Fresh(k)
        /\ Len(rightClasses) = 1 /\ Len(leftClasses) = 1
        /\ endswith(calls[1][1], <<"_", "R">>)
        /\ Cardinality({ BucketOf(results[k][n]) :
                             n \in { x \in 1..Len(results[k]) : IsRule(results[k][x]) } }) >= 3
        /\ \E m, n \in 1..Len(results[k]) :
               /\ m < n /\ IsRule(results[k][m]) /\ IsRule(results[k][n])
               /\ BucketOf(results[k][m]) = BucketOf(results[k][n])

-----------------------------------------------------------------------------
\* write() calls k and k+1 were made in succession, with no classDefinition
\* between them or since
Successive(k) == k + 1 \in Returned /\ Fresh(k) /\ Fresh(k + 1)

HasClassRule(out) == \E n \in 1..Len(out) : IsRule(out[n]) /\ BucketOf(out[n]) # 1

IsGlyphRule(l) == IsRule(l) /\ BucketOf(l) = 1

\* C6 as stated: the second of two successive write() calls returns a text
\* that differs from the first and has fewer rules.
C6_SecondAlwaysEmptier ==
    \A k \in Returned :
        Successive(k) =>
            /\ results[k + 1] # results[k]
            /\ Len(RuleLines(results[k + 1])) < Len(RuleLines(results[k]))

\* C6 amended: the second of two successive write() calls returns exactly the
\* glyph-glyph rules of the first, which stay in the store; it differs from
\* the first and has fewer rules exactly when the first emitted a rule of a
\* class bucket, and otherwise the two texts are equal.
C6_SecondKeepsGlyphRules ==
    \A k \in Returned :
        Successive(k) =>
            /\ RuleLines(results[k + 1]) = SelectSeq(results[k], IsGlyphRule)
            /\ HasClassRule(results[k]) <=> results[k + 1] # results[k]
            /\ HasClassRule(results[k]) <=>
                   Len(RuleLines(results[k + 1])) < Len(RuleLines(results[k]))

\* C6 witness: two successive calls, the first with class rules and
\* glyph-glyph rules.
C6_Witness ==
    \E k \in Returned :
        /\ Successive(k)
        /\ HasClassRule(results[k])
        /\ RuleLines(results[k + 1]) # <<>>

-----------------------------------------------------------------------------
\* _writeKerning is about to emit a class-class rule of a 50-member left
\* class and a 50-member right class, the counter being above zero
At50x50 ==
    /\ pc = "rule"
    /\ bucket = 4
    /\ pairs # <<>>
    /\ sizeOf(Head(pairs).key[1]) = 50
    /\ sizeOf(Head(pairs).key[2]) = 50
    /\ ruleCount > 0

\* C7 as stated: that rule adds 2500: a "subtable;" line goes right before
\* it and the counter is 2500 after it.
C7_ClassPairAdds2500 ==
    [][At50x50 => /\ ruleCount' = 2500
                  /\ Len(sub') = Len(sub) + 2
                  /\ sub'[Len(sub) + 1] = Subtable]_vars

\* C7 amended: that rule is emitted without "enum " and adds 1: the counter
\* is one more after it and no "subtable;" line precedes it, unless the
\* counter stood at 2048, when the line is emitted and the counter is 1.
C7_ClassPairAdds1 ==
    [][At50x50 =>
          IF ruleCount + 1 > 2048
          THEN ruleCount' = 1 /\ sub' = sub \o <<Subtable, sub'[Len(sub')]>>
          ELSE /\ ruleCount' = ruleCount + 1
               /\ Len(sub') = Len(sub) + 1
               /\ IsRule(sub'[Len(sub')]) /\ ~sub'[Len(sub')].enum]_vars

\* C7 witness: such a rule has just been emitted after an earlier rule.
C7_Witness ==
    /\ pc = "rule"
    /\ bucket = 4
    /\ sub # <<>>
    /\ sizeOf(sub[Len(sub)].left) = 50
    /\ sizeOf(sub[Len(sub)].right) = 50
    /\ ruleCount > 1

-----------------------------------------------------------------------------
\* the names classDefinition is to retain, and their sides
RetainedNames == {"@_A_L", "@_K_L", "@_B_R", "@_C", "@_L"}
LeftNames == {"@_A_L", "@_K_L", "@_L"}
RightNames == {"@_B_R"}

IsLeftCall(c) == c[1] \in LeftNames
IsRightCall(c) == c[1] \in RightNames

\* the last call that defined name n
LastCall(n) == calls[CHOOSE m \in 1..Len(calls) :
                        /\ calls[m][1] = n
                        /\ \A x \in m + 1..Len(calls) : calls[x][1] # n]

\* C8: after any sequence of classDefinition calls, leftClasses is the calls
\* with a retained "_L" name and rightClasses those with a retained "_R" name,
\* in order of arrival; classSizes has exactly the retained names, each with
\* the member count of its most recent definition; names without the "@_"
\* prefix and retained names with neither suffix are in neither list.
C8_Registry ==
    /\ leftClasses = SelectSeq(calls, IsLeftCall)
    /\ rightClasses = SelectSeq(calls, IsRightCall)
    /\ DOMAIN classSizes = { calls[n][1] : n \in 1..Len(calls) } \cap RetainedNames
    /\ \A n \in DOMAIN classSizes : classSizes[n] = LastCall(n)[2].len

\* C8 witness: a left class name has been defined twice with different
\* member counts.
C8_Witness ==
    /\ Len(calls) = 2
    /\ calls[1][1] = calls[2][1]
    /\ calls[1][2].len # calls[2][2].len
    /\ calls[1][1] \in LeftNames
    /\ Len(leftClasses) = 2

-----------------------------------------------------------------------------
\* the counter after the first n lines of a text, replayed from the text
RECURSIVE CounterAfter(_, _)
CounterAfter(out, n) ==
    IF n = 0 THEN 0
    ELSE LET c == CounterAfter(out, n - 1)
         IN  IF ~IsRule(out[n]) THEN c
             ELSE IF c + Weight(out[n]) > 2048 THEN Weight(out[n])
             ELSE c + Weight(out[n])

\* C9: one counter runs through the four buckets of a write() call, starting
\* at 0: a "subtable;" line stands right before a rule exactly when the
\* counter plus that rule's weight exceeds 2048, the counter then restarts at
\* that rule's weight, and self.ruleCount ends at the replayed counter.
C9_CounterAndBoundaries ==
    \A k \in Returned :
        Fresh(k) =>
            /\ \A n \in 1..Len(results[k]) :
                   /\ results[k][n] = Subtable =>
                          /\ n < Len(results[k])
                          /\ IsRule(results[k][n + 1])
                   /\ IsRule(results[k][n]) =>
                          (results[k][n - 1] = Subtable <=>
                               CounterAfter(results[k], n - 1) + Weight(results[k][n]) > 2048)
            /\ (k = Len(started)) =>
                   ruleCount = CounterAfter(results[k], Len(results[k]))

\* C9 witness: a "subtable;" line before a rule that alone weighs no more
\* than 2048, forced by the count carried over from an earlier bucket.
C9_Witness ==
    \E k \in Returned : \E n \in 2..Len(results[k]) :
        /\ Fresh(k)
        /\ results[k][n - 1] = Subtable
        /\ IsRule(results[k][n])
        /\ Weight(results[k][n]) <= 2048
        /\ \A m \in 1..n - 1 :
               IsRule(results[k][m]) => BucketOf(results[k][m]) # BucketOf(results[k][n])

-----------------------------------------------------------------------------
\* the pairs of store st that classification is to leave alone
Untouched(st) == { p \in DOMAIN st : p[1] \notin LeftKeys /\ p[2] \notin RightKeys }

\* C10: once classification is over, and until the registry or the store is
\* used again, the store is the starting store restricted to the pairs whose
\* left member keys no left class and whose right member keys no right class;
\* every class-pair entry comes from a key pair that was in the store; the
\* glyph-glyph rules of the returned text are those remaining pairs.
C10_StoreAfterClassification ==
    (/\ started # <<>>
     /\ Fresh(Len(started))
     /\ pc \in {"render", "call", "rule", "return", "idle"}) =>
        LET st == started[Len(started)].store
        IN  /\ kerning = [p \in Untouched(st) |-> st[p]]
            /\ \A key \in DOMAIN classPairKerning :
                   \E m \in 1..Len(leftClasses), n \in 1..Len(rightClasses) :
                       /\ leftClasses[m][1] = key[1]
                       /\ rightClasses[n][1] = key[2]
                       /\ <<leftClasses[m][2].first, rightClasses[n][2].first>> \in DOMAIN st
            /\ pc = "idle" =>
                   { results[Len(results)][n] :
                       n \in { x \in 1..Len(results[Len(results)]) :
                                   IsGlyphRule(results[Len(results)][x]) } }
                   = { Rule(FALSE, p[1], p[2], kerning[p]) : p \in DOMAIN kerning }

\* C10 witness: write() has returned; some pairs were consumed, some remain,
\* and a left class and a right class have a key pair that was not in the store.
C10_Witness ==
    /\ pc = "idle"
    /\ started # <<>>
    /\ Fresh(Len(started))
    /\ Len(results) = Len(started)
    /\ DOMAIN kerning # {}
    /\ DOMAIN kerning # DOMAIN started[Len(started)].store
    /\ \E m \in 1..Len(leftClasses), n \in 1..Len(rightClasses) :
           <<leftClasses[m][2].first, rightClasses[n][2].first>>
               \notin DOMAIN started[Len(started)].store

====
